---- MODULE Spec2Model ----
(***************************************************************************)
(* A model of the TIFF container decoder of goexif2 (package tiff):        *)
(* Decode (tiff.go:59-126), readOffset (tiff.go:128-137) and DecodeDir     *)
(* (tiff.go:158-195), run over byte-level inputs, together with the Nikon  *)
(* maker-note predicate exercised by mknote_test.go.                       *)
(*                                                                         *)
(* The input is a sequence of bytes.  The reader is a position into it,    *)
(* with the semantics of bytes.Reader (the reader the repository's tests   *)
(* hand to Decode): a read of w bytes fails with io.EOF when no byte is    *)
(* left, with io.ErrUnexpectedEOF when fewer than w are left, and a seek   *)
(* fails exactly when the target is negative.                              *)
(***************************************************************************)
EXTENDS Integers, Sequences, FiniteSets, TLC

\* ------------------------------------------------------------------ bounds

\* Number of IFDs laid out in a generated input.
MaxIfds == 2

\* Cap on the iterations of Decode's IFD loop that the model follows.
MaxSteps == 33

\* Longest suffix appended to a maker-note signature.
MaxSuffix == 2

\* ------------------------------------------------------- program constants

ClassicMarker == 42
BigMarker == 43
BigFirstIfdPos == 8

\* ------------------------------------------------------------ byte helpers

Rev(s) == [i \in 1..Len(s) |-> s[Len(s) + 1 - i]]

Max(a, b) == IF a > b THEN a ELSE b
Min(a, b) == IF a < b THEN a ELSE b

\* The w low bytes of v in two's complement, least significant first.
RECURSIVE LowBytes(_, _)
LowBytes(v, w) == IF w = 0 THEN <<>> ELSE <<v % 256>> \o LowBytes(v \div 256, w - 1)

\* v written on w bytes in byte order ord ("LE" or "BE").
PutInt(v, w, ord) == IF ord = "LE" THEN LowBytes(v, w) ELSE Rev(LowBytes(v, w))

\* Horner evaluation of a big-endian byte string, starting from acc.
RECURSIVE Horner(_, _)
Horner(bs, acc) == IF bs = <<>> THEN acc ELSE Horner(Tail(bs), acc * 256 + Head(bs))

MsbFirst(bs, ord) == IF ord = "LE" THEN Rev(bs) ELSE bs

\* encoding/binary reading an unsigned integer (uint16, uint32, uint64).
GetUint(bs, ord) == Horner(MsbFirst(bs, ord), 0)

\* encoding/binary reading a signed integer (int16, int32, int64): the top
\* byte carries the sign.
GetInt(bs, ord) ==
    LET m == MsbFirst(bs, ord)
        top == IF Head(m) >= 128 THEN Head(m) - 256 ELSE Head(m)
    IN  Horner(Tail(m), top)

\* ------------------------------------------------------------------ inputs
\* Inputs are generated from a layout: a header, IFDs placed one after the
\* other behind it, and a number of bytes cut off the end.  A pointer of a
\* layout is 0 (end of chain), -1 (the bytes ff..ff), -2 (a position behind
\* the end of the file) or j >= 1 (the position of the layout's j-th IFD).

MagicBytes(magic) ==
    IF magic = "II" THEN <<73, 73>> ELSE IF magic = "MM" THEN <<77, 77>> ELSE <<88, 88>>

LayOrd(lay) == IF lay.magic = "MM" THEN "BE" ELSE "LE"
LayBig(lay) == lay.marker = 43
LayOffW(lay) == IF LayBig(lay) THEN 8 ELSE 4
LayCntW(lay) == IF LayBig(lay) THEN 8 ELSE 2
LayTagW(lay) == IF LayBig(lay) THEN 20 ELSE 12
LayHdrW(lay) == IF LayBig(lay) THEN 16 ELSE 8

LayIfdSize(lay, j) ==
    LayCntW(lay) + Len(lay.ifds[j].tags) * LayTagW(lay) + LayOffW(lay)

RECURSIVE LayIfdPos(_, _)
LayIfdPos(lay, j) ==
    IF j = 1 THEN LayHdrW(lay) ELSE LayIfdPos(lay, j - 1) + LayIfdSize(lay, j - 1)

LayLen(lay) == LayIfdPos(lay, Len(lay.ifds) + 1)

LayPtr(lay, p) ==
    IF p = 0 THEN 0
    ELSE IF p = -1 THEN -1
    ELSE IF p = -2 THEN LayLen(lay) + 4
    ELSE LayIfdPos(lay, p)

Zeros(w) == [i \in 1..w |-> 0]
Pad(bs, w) == bs \o Zeros(w - Len(bs))

EncHeader(lay) ==
    MagicBytes(lay.magic)
    \o PutInt(lay.marker, 2, LayOrd(lay))
    \o (IF LayBig(lay) THEN PutInt(8, 2, LayOrd(lay)) \o PutInt(0, 2, LayOrd(lay)) ELSE <<>>)
    \o PutInt(LayPtr(lay, lay.first), LayOffW(lay), LayOrd(lay))

\* The type code, the value count and the value slot of a tag of the layout.
LayTagType(t) == IF t.kind = "short" THEN 3 ELSE IF t.kind = "unh" THEN 99 ELSE 1
LayTagCount(lay, t) == IF t.kind \in {"ext", "extbad"} THEN LayOffW(lay) + 1 ELSE 1
LayTagSlot(lay, t) ==
    IF t.kind = "byte" THEN Pad(<<7>>, LayOffW(lay))
    ELSE IF t.kind = "short" THEN Pad(PutInt(513, 2, LayOrd(lay)), LayOffW(lay))
    ELSE IF t.kind = "ext" THEN PutInt(0, LayOffW(lay), LayOrd(lay))
    ELSE IF t.kind = "extbad" THEN PutInt(LayLen(lay) + 4, LayOffW(lay), LayOrd(lay))
    ELSE Zeros(LayOffW(lay))

EncTag(lay, t) ==
    PutInt(t.id, 2, LayOrd(lay))
    \o PutInt(LayTagType(t), 2, LayOrd(lay))
    \o PutInt(LayTagCount(lay, t), LayOffW(lay), LayOrd(lay))
    \o LayTagSlot(lay, t)

RECURSIVE EncTags(_, _)
EncTags(lay, ts) == IF ts = <<>> THEN <<>> ELSE EncTag(lay, Head(ts)) \o EncTags(lay, Tail(ts))

EncIfd(lay, j) ==
    PutInt(lay.ifds[j].count, LayCntW(lay), LayOrd(lay))
    \o EncTags(lay, lay.ifds[j].tags)
    \o PutInt(LayPtr(lay, lay.ifds[j].next), LayOffW(lay), LayOrd(lay))

RECURSIVE EncIfds(_, _)
EncIfds(lay, j) == IF j > Len(lay.ifds) THEN <<>> ELSE EncIfd(lay, j) \o EncIfds(lay, j + 1)

\* The bytes of the input a layout stands for.
Encode(lay) ==
    LET full == EncHeader(lay) \o EncIfds(lay, 1)
    IN  SubSeq(full, 1, Len(full) - lay.cut)

\* The tag records of the first IFD of a layout: empty, one inline value, an
\* unhandled type before a recognized one, a value stored out of line (inside
\* and outside the file), and a tag count of ff..ff.
Variants ==
    { [count |-> 0, tags |-> <<>>],
      [count |-> 1, tags |-> <<[kind |-> "byte", id |-> 256]>>],
      [count |-> 2, tags |-> <<[kind |-> "unh", id |-> 258], [kind |-> "short", id |-> 257]>>],
      [count |-> 1, tags |-> <<[kind |-> "ext", id |-> 259]>>],
      [count |-> 1, tags |-> <<[kind |-> "extbad", id |-> 260]>>],
      [count |-> -1, tags |-> <<>>] }

Ptrs == {-2, -1, 0} \cup (1..MaxIfds)

\* IFD j > 1 of a layout holds one inline tag whose id names the IFD.
LayIfds(v, nx) ==
    [j \in 1..MaxIfds |->
        IF j = 1 THEN [count |-> v.count, tags |-> v.tags, next |-> nx[1]]
        ELSE [count |-> 1, tags |-> <<[kind |-> "byte", id |-> 512 + j]>>, next |-> nx[j]]]

\* A classic little-endian and a big-endian BigTIFF header in front of every
\* chain shape over MaxIfds IFDs.
ChainLayouts ==
    { [magic |-> h[1], marker |-> h[2], first |-> f, ifds |-> LayIfds(v, nx), cut |-> 0] :
        h \in {<<"II", 42>>, <<"MM", 43>>}, f \in Ptrs, v \in Variants, nx \in [1..MaxIfds -> Ptrs] }

\* Every header, valid or not, in front of the chains 1 -> 2 -> end and
\* 1 -> end, cut at every length.
CutShapes ==
    { [magic |-> m, marker |-> k, first |-> 1, cut |-> 0,
       ifds |-> << [count |-> v.count, tags |-> v.tags, next |-> x],
                   [count |-> 1, tags |-> <<[kind |-> "byte", id |-> 514]>>, next |-> 0] >>] :
        m \in {"II", "MM", "XX"}, k \in {42, 43, 44, 10752}, x \in {0, 2},
        v \in {w \in Variants : w.count \in {0, 2}} }

CutLayouts ==
    UNION { { [s EXCEPT !.cut = c] : c \in 0..LayLen(s) } : s \in CutShapes }

Layouts == ChainLayouts \cup CutLayouts

\* What a layout says about the chain the decoder should find.

\* The pointer at which the chain of a layout stops, following at most k IFDs
\* from pointer p: 0 for a chain that ends, an IFD for a chain that cycles.
RECURSIVE LayTerm(_, _, _)
LayTerm(l, p, k) ==
    IF p < 1 \/ k = 0 THEN p ELSE LayTerm(l, l.ifds[p].next, k - 1)

\* The IFDs of the chain of a layout, in chain order, at most k of them.
RECURSIVE LayWalk(_, _, _)
LayWalk(l, p, k) ==
    IF p < 1 \/ k = 0 THEN <<>> ELSE <<p>> \o LayWalk(l, l.ifds[p].next, k - 1)

LayChain(l) == LayWalk(l, l.first, Len(l.ifds) + 1)

\* IFD j of the layout has as many records as it declares, each of them
\* decodable, and lies inside the input.
LayWellFormed(l, j) ==
    /\ l.ifds[j].count = Len(l.ifds[j].tags)
    /\ \A i \in 1..Len(l.ifds[j].tags) : l.ifds[j].tags[i].kind # "extbad"
    /\ LayIfdPos(l, j) + LayIfdSize(l, j) <= LayLen(l) - l.cut

LayTagVal(l, t) ==
    IF t.kind = "byte" THEN <<7>>
    ELSE IF t.kind = "short" THEN PutInt(513, 2, LayOrd(l))
    ELSE SubSeq(EncHeader(l), 1, LayOffW(l) + 1)

\* The Tags of the Dir that IFD records ts stand for.
RECURSIVE LayTags(_, _)
LayTags(l, ts) ==
    IF ts = <<>> THEN <<>>
    ELSE IF Head(ts).kind = "unh" THEN LayTags(l, Tail(ts))
    ELSE << [Id |-> Head(ts).id, Type |-> LayTagType(Head(ts)),
             Count |-> LayTagCount(l, Head(ts)), Val |-> LayTagVal(l, Head(ts))] >>
         \o LayTags(l, Tail(ts))

\* magic "II", marker 42, offset 8, an empty IFD, next pointer 0.
MinimalTiff == <<73, 73, 42, 0, 8, 0, 0, 0, 0, 0, 0, 0, 0, 0>>

\* ------------------------------------------------------------------- state

VARIABLES
    data,       \* the bytes of r
    lay,        \* the layout data was generated from (never read by the decoder)
    pc,         \* the decoder's position in Decode / DecodeDir
    pos,        \* r's read position
    order,      \* t.Order
    isBig,      \* t.IsBig
    offset,     \* Decode's offset
    prev,       \* Decode's prev
    dirs,       \* t.Dirs
    nTags,      \* DecodeDir's nTags
    n,          \* DecodeDir's n
    tags,       \* DecodeDir's d.Tags
    dret,       \* what DecodeDir returned
    ret,        \* what Decode returned
    seeks,      \* number of calls of r.Seek
    hiRead,     \* number of leading bytes of r that a read has reached
    steps,      \* number of iterations of the IFD loop entered
    decoded,    \* the successful returns of DecodeDir, in order
    tagCalls,   \* number of calls of DecodeTag in the current DecodeDir
    skipped,    \* number of times the IFD loop took the EOF branch
    afterSkip,  \* number of iterations entered after the first EOF branch
    dirAt,      \* the position at which the current DecodeDir started
    mkTag,      \* the maker-note tag handed to the predicate
    mkRes       \* what the predicate returned for it

vars == << data, lay, pc, pos, order, isBig, offset, prev, dirs, nTags, n, tags,
           dret, ret, seeks, hiRead, steps, decoded, tagCalls, skipped, afterSkip,
           dirAt, mkTag, mkRes >>

decVars == << data, lay, pc, pos, order, isBig, offset, prev, dirs, nTags, n, tags,
              dret, ret, seeks, hiRead, steps, decoded, tagCalls, skipped, afterSkip, dirAt >>

\* ------------------------------------------------------------------ errors

NoErr == [isNil |-> TRUE, kind |-> "", msg |-> "", cause |-> ""]

\* newTiffError: cause is "nil" or the name of the underlying error.
newTiffError(msg, cause) ==
    [isNil |-> FALSE, kind |-> "TiffError", msg |-> msg, cause |-> cause]

errUnhandledTagType ==
    [isNil |-> FALSE, kind |-> "errUnhandledTagType", msg |-> "unhandled type", cause |-> "nil"]

NilTiff == [isNil |-> TRUE, Dirs |-> <<>>, Order |-> "", IsBig |-> FALSE]
NilDir == [isNil |-> TRUE, Tags |-> <<>>]

\* ------------------------------------------------------------------ reader

\* io.ReadFull / binary.Read of w bytes at position p: all w bytes, or io.EOF
\* when none is left, or io.ErrUnexpectedEOF when fewer than w are left.
Read(p, w) ==
    LET avail == Max(0, Min(w, Len(data) - p))
    IN  [ err |-> IF avail = w THEN "nil" ELSE IF avail = 0 THEN "EOF" ELSE "ErrUnexpectedEOF",
          bytes |-> SubSeq(data, p + 1, p + avail),
          pos |-> p + avail ]

\* r.Seek(target, 0) fails when the target is before the start of the input.
SeekFails(target) == target < 0

\* readOffset: an int64 for BigTIFF, an int32 otherwise, widened to int64.
readOffset(p, ord, big) ==
    LET r == Read(p, IF big THEN 8 ELSE 4)
    IN  [ err |-> r.err, pos |-> r.pos,
          offset |-> IF r.err = "nil" THEN GetInt(r.bytes, ord) ELSE 0 ]

\* ------------------------------------------------------------- Tag Decoder

\* Byte width of a value of each recognized type code (1 = byte .. 12 = double).
TypeSize == <<1, 1, 2, 4, 8, 1, 1, 2, 4, 8, 4, 8>>

NoTag == [Id |-> 0, Type |-> 0, Count |-> 0, Val |-> <<>>]

TagFail(cause, p, hi) ==
    [err |-> newTiffError("tag read failed", cause), tag |-> NoTag, pos |-> p, hi |-> hi]

\* DecodeTag at position p: the outcomes it can have.  It reads the id, the
\* type code, the value count and the value slot of the record; a type code
\* outside the enumeration is the unhandled type; a value that fits the slot
\* is taken from it, a longer one is fetched from the offset the slot holds.
DecodeTag(p, ord, big) ==
    LET w == IF big THEN 8 ELSE 4
        idR == Read(p, 2)
        tyR == Read(idR.pos, 2)
        cnR == Read(tyR.pos, w)
        slR == Read(cnR.pos, w)
        ty == GetUint(tyR.bytes, ord)
        cnt == GetUint(cnR.bytes, ord)
        valLen == TypeSize[ty] * cnt
        at == GetUint(slR.bytes, ord)
        mk(val) == [Id |-> GetUint(idR.bytes, ord), Type |-> ty, Count |-> cnt, Val |-> val]
    IN  IF idR.err # "nil" THEN {TagFail(idR.err, idR.pos, idR.pos)}
        ELSE IF tyR.err # "nil" THEN {TagFail(tyR.err, tyR.pos, tyR.pos)}
        ELSE IF cnR.err # "nil" THEN {TagFail(cnR.err, cnR.pos, cnR.pos)}
        ELSE IF slR.err # "nil" THEN {TagFail(slR.err, slR.pos, slR.pos)}
        ELSE IF ty \notin DOMAIN TypeSize
            THEN {[err |-> errUnhandledTagType, tag |-> mk(<<>>), pos |-> slR.pos, hi |-> slR.pos]}
        ELSE IF valLen <= w
            THEN {[err |-> NoErr, tag |-> mk(SubSeq(slR.bytes, 1, valLen)), pos |-> slR.pos, hi |-> slR.pos]}
        ELSE IF at + valLen <= Len(data)
            THEN {[err |-> NoErr, tag |-> mk(SubSeq(data, at + 1, at + valLen)),
                   pos |-> slR.pos, hi |-> Max(slR.pos, at + valLen)]}
        ELSE {TagFail(c, slR.pos, Len(data)) : c \in {"EOF", "ErrUnexpectedEOF"}}

\* ------------------------------------------------------------------ Decode

\* ByteOrderOf with the final else taken for big endian.
ByteOrderOfLax(bo) == IF bo = <<73, 73>> THEN "LE" ELSE "BE"

\* tiff.go:68-74: the byte order the two magic bytes select ("" for neither).
ByteOrderOf(bo) ==
    IF bo = <<73, 73>> THEN "LE" ELSE IF bo = <<77, 77>> THEN "BE" ELSE ""

\* tiff.go:79: the marker is one of the two variant constants.
MarkerOk(sp) == sp = ClassicMarker \/ sp = BigMarker

\* IsEofSkip testing for the wrong end-of-input error.
IsEofSkipUnexpected(err) == err.kind = "TiffError" /\ err.cause = "ErrUnexpectedEOF"

\* tiff.go:110: the failure is a TiffError whose cause is io.EOF.
IsEofSkip(err) == err.kind = "TiffError" /\ err.cause = "EOF"

\* tiff.go:117
IsRecursive(off, prv) == off = prv

\* NextPrev that leaves prev at the first IFD's offset.
NextPrevStale(off, prv) == prv

\* tiff.go:120: prev after an IFD passed the cycle guard.
NextPrev(off, prv) == off

\* OffsetAfterDecodeDir with the results of a failed DecodeDir dropped.
OffsetKeptOnFailure(r, cur) == IF r.err.isNil THEN r.offset ELSE cur

\* tiff.go:108: Decode's offset after d, offset, err = DecodeDir(...).
OffsetAfterDecodeDir(r, cur) == r.offset

\* AppendDir putting the new Dir in front.
PrependDir(ds, d) == <<d>> \o ds

\* tiff.go:122
AppendDir(ds, d) == Append(ds, d)

\* tiff.go:178: the loop condition n < int(nTags) is false.
TagLoopDone(k, cnt) == ~(k < cnt)

\* FailReturn handing out the Tiff built so far.
FailReturnPartial(err) ==
    [tiff |-> [isNil |-> FALSE, Dirs |-> dirs, Order |-> order, IsBig |-> isBig], err |-> err]

\* Decode's return nil, err.
FailReturn(err) == [tiff |-> NilTiff, err |-> err]

\* Decode's return t, nil.
OkReturn(ds, ord, big) ==
    [tiff |-> [isNil |-> FALSE, Dirs |-> ds, Order |-> ord, IsBig |-> big], err |-> NoErr]

\* DecodeDir's return nil, 0, err.
DirFail(err) == [d |-> NilDir, offset |-> 0, err |-> err]

\* DecodeDir's return d, offset, nil.
DirOk(ts, off) == [d |-> [isNil |-> FALSE, Tags |-> ts], offset |-> off, err |-> NoErr]

NoDirRet == DirFail(NoErr)
NoRet == FailReturn(NoErr)

Touch(r) == IF r.bytes = <<>> THEN hiRead ELSE Max(hiRead, r.pos)

Init ==
    /\ lay \in Layouts
    /\ data = Encode(lay)
    /\ pc = "start"
    /\ pos = 0
    /\ order = ""
    /\ isBig = FALSE
    /\ offset = 0
    /\ prev = 0
    /\ dirs = <<>>
    /\ nTags = 0
    /\ n = 0
    /\ tags = <<>>
    /\ dret = NoDirRet
    /\ ret = NoRet
    /\ seeks = 0
    /\ hiRead = 0
    /\ steps = 0
    /\ decoded = <<>>
    /\ tagCalls = 0
    /\ skipped = 0
    /\ afterSkip = 0
    /\ dirAt = 0
    /\ mkTag = NoTag
    /\ mkRes = "none"

\* tiff.go:62-74
ReadByteOrder ==
    /\ pc = "start"
    /\ LET r == Read(pos, 2)
       IN  /\ pos' = r.pos
           /\ hiRead' = Touch(r)
           /\ IF r.err # "nil"
                THEN /\ ret' = FailReturn(newTiffError("could not read tiff byte order", r.err))
                     /\ pc' = "done"
                     /\ order' = order
                ELSE IF ByteOrderOf(r.bytes) = ""
                THEN /\ ret' = FailReturn(newTiffError("could not read tiff byte order", "nil"))
                     /\ pc' = "done"
                     /\ order' = order
                ELSE /\ order' = ByteOrderOf(r.bytes)
                     /\ pc' = "marker"
                     /\ ret' = ret
    /\ UNCHANGED << data, lay, isBig, offset, prev, dirs, nTags, n, tags, dret, seeks,
                    steps, decoded, tagCalls, skipped, afterSkip, dirAt, mkTag, mkRes >>

\* tiff.go:76-83
ReadMarker ==
    /\ pc = "marker"
    /\ LET r == Read(pos, 2)
           sp == IF r.err = "nil" THEN GetInt(r.bytes, order) ELSE 0
       IN  /\ pos' = r.pos
           /\ hiRead' = Touch(r)
           /\ IF r.err # "nil" \/ ~MarkerOk(sp)
                THEN /\ ret' = FailReturn(newTiffError("could not find special tiff marker", r.err))
                     /\ pc' = "done"
                     /\ isBig' = isBig
                ELSE /\ isBig' = (BigMarker = sp)
                     /\ pc' = IF BigMarker = sp THEN "seekbig" ELSE "first"
                     /\ ret' = ret
    /\ UNCHANGED << data, lay, order, offset, prev, dirs, nTags, n, tags, dret, seeks,
                    steps, decoded, tagCalls, skipped, afterSkip, dirAt, mkTag, mkRes >>

\* tiff.go:84-89
SeekFirst ==
    /\ pc = "seekbig"
    /\ seeks' = seeks + 1
    /\ IF SeekFails(BigFirstIfdPos)
         THEN /\ ret' = FailReturn(newTiffError("could not seek to first IFD", "seek"))
              /\ pc' = "done"
              /\ pos' = pos
         ELSE /\ pos' = BigFirstIfdPos
              /\ pc' = "first"
              /\ ret' = ret
    /\ UNCHANGED << data, lay, order, isBig, offset, prev, dirs, nTags, n, tags, dret,
                    hiRead, steps, decoded, tagCalls, skipped, afterSkip, dirAt, mkTag, mkRes >>

\* tiff.go:91-99
ReadFirstOffset ==
    /\ pc = "first"
    /\ LET r == readOffset(pos, order, isBig)
       IN  /\ pos' = r.pos
           /\ hiRead' = IF r.pos = pos THEN hiRead ELSE Max(hiRead, r.pos)
           /\ IF r.err # "nil"
                THEN /\ ret' = FailReturn(newTiffError("could not read offset to first IFD", r.err))
                     /\ pc' = "done"
                     /\ UNCHANGED << offset, prev >>
                ELSE /\ offset' = r.offset
                     /\ prev' = r.offset
                     /\ pc' = "loop"
                     /\ ret' = ret
    /\ UNCHANGED << data, lay, order, isBig, dirs, nTags, n, tags, dret, seeks,
                    steps, decoded, tagCalls, skipped, afterSkip, dirAt, mkTag, mkRes >>

\* tiff.go:100-105: the loop condition holds; seek to the IFD.
LoopSeek ==
    /\ pc = "loop"
    /\ offset # 0
    /\ steps < MaxSteps
    /\ steps' = steps + 1
    /\ afterSkip' = IF skipped > 0 THEN afterSkip + 1 ELSE afterSkip
    /\ seeks' = seeks + 1
    /\ IF SeekFails(offset)
         THEN /\ ret' = FailReturn(newTiffError("seek to IFD failed", "seek"))
              /\ pc' = "done"
              /\ UNCHANGED << pos, dirAt >>
         ELSE /\ pos' = offset
              /\ dirAt' = offset
              /\ pc' = "dir_count"
              /\ ret' = ret
    /\ nTags' = 0
    /\ n' = 0
    /\ tags' = <<>>
    /\ tagCalls' = 0
    /\ UNCHANGED << data, lay, order, isBig, offset, prev, dirs, dret, hiRead,
                    decoded, skipped, mkTag, mkRes >>

\* tiff.go:100,125: the loop condition fails; return t, nil.
ReturnTiff ==
    /\ pc = "loop"
    /\ offset = 0
    /\ ret' = OkReturn(dirs, order, isBig)
    /\ pc' = "done"
    /\ UNCHANGED << data, lay, pos, order, isBig, offset, prev, dirs, nTags, n, tags,
                    dret, seeks, hiRead, steps, decoded, tagCalls, skipped, afterSkip,
                    dirAt, mkTag, mkRes >>

\* tiff.go:161-175: the tag count, an int64 for BigTIFF and an int16 otherwise.
DirCount ==
    /\ pc = "dir_count"
    /\ LET r == Read(pos, IF isBig THEN 8 ELSE 2)
       IN  /\ pos' = r.pos
           /\ hiRead' = Touch(r)
           /\ IF r.err # "nil"
                THEN /\ dret' = DirFail(newTiffError("failed to read IFD tag count", r.err))
                     /\ pc' = "dir_ret"
                     /\ nTags' = nTags
                ELSE /\ nTags' = GetInt(r.bytes, order)
                     /\ pc' = "dir_tags"
                     /\ dret' = dret
    /\ UNCHANGED << data, lay, order, isBig, offset, prev, dirs, n, tags, ret, seeks,
                    steps, decoded, tagCalls, skipped, afterSkip, dirAt, mkTag, mkRes >>

\* tiff.go:178-186: one iteration of the tag loop.
DirTag ==
    /\ pc = "dir_tags"
    /\ ~TagLoopDone(n, nTags)
    /\ \E o \in DecodeTag(pos, order, isBig) :
         /\ pos' = o.pos
         /\ hiRead' = Max(hiRead, o.hi)
         /\ tagCalls' = tagCalls + 1
         /\ IF o.err = errUnhandledTagType
              THEN /\ n' = n + 1
                   /\ UNCHANGED << tags, dret, pc >>
              ELSE IF ~o.err.isNil
              THEN /\ dret' = DirFail(o.err)
                   /\ pc' = "dir_ret"
                   /\ UNCHANGED << n, tags >>
              ELSE /\ tags' = Append(tags, o.tag)
                   /\ n' = n + 1
                   /\ UNCHANGED << dret, pc >>
    /\ UNCHANGED << data, lay, order, isBig, offset, prev, dirs, nTags, ret, seeks,
                    steps, decoded, skipped, afterSkip, dirAt, mkTag, mkRes >>

\* tiff.go:188-194: the offset to the next IFD.
DirNext ==
    /\ pc = "dir_tags"
    /\ TagLoopDone(n, nTags)
    /\ LET r == readOffset(pos, order, isBig)
       IN  /\ pos' = r.pos
           /\ hiRead' = IF r.pos = pos THEN hiRead ELSE Max(hiRead, r.pos)
           /\ dret' = IF r.err # "nil"
                        THEN DirFail(newTiffError("failed to read offset to next IFD", r.err))
                        ELSE DirOk(tags, r.offset)
    /\ pc' = "dir_ret"
    /\ UNCHANGED << data, lay, order, isBig, offset, prev, dirs, nTags, n, tags, ret,
                    seeks, steps, decoded, tagCalls, skipped, afterSkip, dirAt, mkTag, mkRes >>

\* tiff.go:108-115: d, offset, err = DecodeDir(...), and the error branch.
DirReturn ==
    /\ pc = "dir_ret"
    /\ offset' = OffsetAfterDecodeDir(dret, offset)
    /\ IF ~dret.err.isNil
         THEN IF IsEofSkip(dret.err)
                THEN /\ skipped' = skipped + 1
                     /\ pc' = "loop"
                     /\ UNCHANGED << ret, decoded >>
                ELSE /\ ret' = FailReturn(dret.err)
                     /\ pc' = "done"
                     /\ UNCHANGED << skipped, decoded >>
         ELSE /\ decoded' = Append(decoded, [at |-> dirAt, d |-> dret.d, next |-> dret.offset])
              /\ pc' = "check"
              /\ UNCHANGED << ret, skipped >>
    /\ UNCHANGED << data, lay, pos, order, isBig, prev, dirs, nTags, n, tags, dret,
                    seeks, hiRead, steps, tagCalls, afterSkip, dirAt, mkTag, mkRes >>

\* tiff.go:117-122: the cycle guard, then the append.
CheckRecursive ==
    /\ pc = "check"
    /\ IF IsRecursive(offset, prev)
         THEN /\ ret' = FailReturn(newTiffError("recursive IFD", "nil"))
              /\ pc' = "done"
              /\ UNCHANGED << prev, dirs >>
         ELSE /\ prev' = NextPrev(offset, prev)
              /\ dirs' = AppendDir(dirs, dret.d)
              /\ pc' = "loop"
              /\ ret' = ret
    /\ UNCHANGED << data, lay, pos, order, isBig, offset, nTags, n, tags, dret, seeks,
                    hiRead, steps, decoded, tagCalls, skipped, afterSkip, dirAt, mkTag, mkRes >>

Next ==
    \/ ReadByteOrder
    \/ ReadMarker
    \/ SeekFirst
    \/ ReadFirstOffset
    \/ LoopSeek
    \/ ReturnTiff
    \/ DirCount
    \/ DirTag
    \/ DirNext
    \/ DirReturn
    \/ CheckRecursive

Spec == Init /\ [][Next]_vars

\* -------------------------------------------------------------- maker note

\* "Nikon\000" and "Canon\000"
NikonSig == <<78, 105, 107, 111, 110, 0>>
CanonSig == <<67, 97, 110, 111, 110, 0>>

\* bytes.HasPrefix
HasPrefix(s, prefix) == Len(s) >= Len(prefix) /\ SubSeq(s, 1, Len(prefix)) = prefix

\* The predicate accepting nothing but the bare signature.
hasExactMakerNoteValue(tag) == tag.Val = NikonSig

\* NikonV3.hasValidMakerNoteValue: the tag's Val begins with the signature.
hasValidMakerNoteValue(tag) == HasPrefix(tag.Val, NikonSig)

\* mknote_test.go:9-20, in the order of the table.
tiffMakerNoteValueTests ==
    << [makerNoteValue |-> NikonSig, expectedOutput |-> TRUE],
       [makerNoteValue |-> <<0, 0, 0, 0, 0>>, expectedOutput |-> FALSE],
       [makerNoteValue |-> <<>>, expectedOutput |-> FALSE],
       [makerNoteValue |-> <<0, 0, 0, 0, 0, 0>>, expectedOutput |-> FALSE],
       [makerNoteValue |-> CanonSig, expectedOutput |-> FALSE],
       [makerNoteValue |-> NikonSig \o <<52, 50>>, expectedOutput |-> TRUE] >>

\* Values handed to the predicate: the signatures and six zero bytes, cut at
\* every length, with one byte changed, and followed by every short suffix.
Signatures == {NikonSig, CanonSig, Zeros(6)}
Suffixes == UNION { [1..k -> {0, 50, 52}] : k \in 0..MaxSuffix }
MakerNoteValues ==
    { SubSeq(g, 1, k) : g \in Signatures, k \in 0..6 }
    \cup { g \o x : g \in Signatures \cup { [NikonSig EXCEPT ![i] = b] : i \in 1..6, b \in {0, 67} },
                    x \in Suffixes }

\* A decoder at rest beside a maker-note tag that no parser has looked at.
InitNikon ==
    /\ lay = [magic |-> "II", marker |-> 42, first |-> 1, cut |-> 0,
              ifds |-> << [count |-> 0, tags |-> <<>>, next |-> 0] >>]
    /\ data = Encode(lay)
    /\ pc = "idle"
    /\ pos = 0 /\ order = "" /\ isBig = FALSE /\ offset = 0 /\ prev = 0
    /\ dirs = <<>> /\ nTags = 0 /\ n = 0 /\ tags = <<>>
    /\ dret = NoDirRet /\ ret = NoRet
    /\ seeks = 0 /\ hiRead = 0 /\ steps = 0 /\ decoded = <<>>
    /\ tagCalls = 0 /\ skipped = 0 /\ afterSkip = 0 /\ dirAt = 0
    /\ \E id \in {1, 37500}, v \in MakerNoteValues :
          mkTag = [Id |-> id, Type |-> 7, Count |-> Len(v), Val |-> v]
    /\ mkRes = "none"

\* mknote_test.go:29: isValid = NikonV3.hasValidMakerNoteValue(tiffMakerNote)
NikonProbe ==
    /\ pc = "idle"
    /\ mkRes = "none"
    /\ mkRes' = IF hasValidMakerNoteValue(mkTag) THEN "true" ELSE "false"
    /\ UNCHANGED << decVars, mkTag >>

NextNikon == NikonProbe

SpecNikon == InitNikon /\ [][NextNikon]_vars

\* ------------------------------------------------------------------ claims

Returned == pc = "done"
Last(q) == q[Len(q)]
DirsOf(q) == [i \in 1..Len(q) |-> q[i].d]

\* C1: whenever DecodeDir has decoded the IFD at offset o and returned o itself
\* as the next offset, nothing is visited after it and Decode returns the
\* "recursive IFD" failure and no Tiff; at the cycle guard prev is the offset
\* of the IFD just visited, for the first IFD and for every later one.
C1_CycleRejection ==
    /\ \A i \in 1..Len(decoded) :
         decoded[i].next = decoded[i].at =>
            /\ i = Len(decoded)
            /\ pc \in {"check", "done"}
            /\ Returned => /\ ret.tiff.isNil
                           /\ ret.err = newTiffError("recursive IFD", "nil")
    /\ pc = "check" => prev = Last(decoded).at

\* C1 witness: a self-loop at an IFD that is not the first one was rejected.
C1_Witness ==
    /\ Returned
    /\ Len(decoded) >= 2
    /\ Last(decoded).next = Last(decoded).at
    /\ ret.err.msg = "recursive IFD"

\* C5: every return of Decode is a Tiff with a nil error or no Tiff with a
\* non-nil error, and a failure carries none of the Dirs appended before it.
C5_AllOrNothing ==
    /\ Returned =>
         \/ ~ret.tiff.isNil /\ ret.err.isNil
         \/ ret.tiff.isNil /\ ~ret.err.isNil /\ ret.tiff.Dirs = <<>>
    /\ ~Returned => ret = NoRet

\* C5 witness: a hard failure after two Dirs had been appended.
C5_Witness ==
    /\ Returned
    /\ ~ret.err.isNil
    /\ Len(dirs) >= 2

HasMagic == Len(data) >= 2 /\ SubSeq(data, 1, 2) \in {<<73, 73>>, <<77, 77>>}
HasMarker ==
    /\ Len(data) >= 4
    /\ (IF data[1] = 73 THEN data[3] + 256 * data[4] ELSE 256 * data[3] + data[4]) \in {42, 43}

\* C8: with a bad magic Decode never seeks, never reads past byte 2 and fails
\* with a TiffError and no Tiff; with a valid magic and a marker that is
\* neither 42 nor 43 it fails the same way; in both cases no IFD is visited.
C8_HeaderValidation ==
    /\ ~HasMagic =>
         /\ seeks = 0 /\ hiRead <= 2 /\ steps = 0 /\ decoded = <<>>
         /\ pc \in {"start", "done"}
         /\ Returned => ret.tiff.isNil /\ ret.err.kind = "TiffError"
                        /\ ret.err.msg = "could not read tiff byte order"
    /\ HasMagic /\ ~HasMarker =>
         /\ seeks = 0 /\ hiRead <= 4 /\ steps = 0 /\ decoded = <<>>
         /\ pc \in {"start", "marker", "done"}
         /\ Returned => ret.tiff.isNil /\ ret.err.kind = "TiffError"
                        /\ ret.err.msg = "could not find special tiff marker"

\* C8 witness: an input that goes on behind a bad magic was rejected.
C8_Witness ==
    /\ Returned
    /\ Len(data) > 8
    /\ SubSeq(data, 1, 2) = <<88, 88>>
    /\ ret.tiff.isNil

\* C4: when an IFD that is not the first one was decoded and its next-IFD
\* pointer lies at or behind the end of the input, nothing is decoded after it
\* and Decode returns a nil error and a Tiff whose Dirs are the Dirs decoded
\* up to and including that IFD, in chain order.
C4_EofLeniency ==
    \A k \in 2..Len(decoded) :
        decoded[k].next >= Len(data) =>
            /\ k = Len(decoded)
            /\ Returned =>
                 /\ ret.err.isNil
                 /\ ~ret.tiff.isNil
                 /\ ret.tiff.Dirs = DirsOf(decoded)

\* C4 witness: the second IFD of a chain pointed behind the end of the input
\* and Decode returned both Dirs.
C4_Witness ==
    /\ Returned
    /\ Len(decoded) = 2
    /\ decoded[2].next > Len(data)
    /\ dret.err.msg = "failed to read IFD tag count"
    /\ ret.err.isNil
    /\ Len(ret.tiff.Dirs) = 2

\* C10 as stated: after the EOF branch the IFD loop goes on to another IFD.
C10_WalkContinues ==
    (pc = "loop" /\ skipped > 0) => offset # 0

\* C10 as amended: the EOF branch is taken at most once and ends the walk:
\* the failed DecodeDir leaves offset at 0, no IFD is visited afterwards, and
\* Decode returns a nil error with exactly the Dirs decoded before.
C10_SkipEndsWalk ==
    skipped > 0 =>
        /\ skipped = 1
        /\ offset = 0
        /\ afterSkip = 0
        /\ pc \in {"loop", "done"}
        /\ Returned => /\ ret.err.isNil
                       /\ ~ret.tiff.isNil
                       /\ ret.tiff.Dirs = DirsOf(decoded)

\* C10 witness: an IFD cut off right in front of its next-IFD pointer was
\* skipped after one Dir had been decoded.
C10_Witness ==
    /\ Returned
    /\ skipped = 1
    /\ dret.err = newTiffError("failed to read offset to next IFD", "EOF")
    /\ Len(ret.tiff.Dirs) = 1

\* C6: for a valid header and a chain of well-formed IFDs at distinct offsets
\* that ends with a zero pointer, Decode returns a nil error and one Dir per
\* IFD of the chain, in chain order, each holding the tags of its IFD, with
\* the header's byte order and variant; the minimal TIFF gives one empty Dir.
C6_ChainOrder ==
    /\ ( /\ Returned
         /\ lay.magic \in {"II", "MM"}
         /\ lay.marker \in {42, 43}
         /\ LayChain(lay) # <<>>
         /\ LayTerm(lay, lay.first, Len(lay.ifds) + 1) = 0
         /\ \A i \in 1..Len(LayChain(lay)) : LayWellFormed(lay, LayChain(lay)[i]) )
       => /\ ret.err.isNil
          /\ ~ret.tiff.isNil
          /\ Len(ret.tiff.Dirs) = Len(LayChain(lay))
          /\ \A i \in 1..Len(LayChain(lay)) :
                /\ ~ret.tiff.Dirs[i].isNil
                /\ ret.tiff.Dirs[i].Tags = LayTags(lay, lay.ifds[LayChain(lay)[i]].tags)
                /\ decoded[i].at = LayIfdPos(lay, LayChain(lay)[i])
          /\ ret.tiff.Order = LayOrd(lay)
          /\ ret.tiff.IsBig = LayBig(lay)
    /\ (Returned /\ data = MinimalTiff)
       => /\ ret.err.isNil
          /\ ret.tiff.Dirs = << [isNil |-> FALSE, Tags |-> <<>>] >>
          /\ ret.tiff.Order = "LE" /\ ~ret.tiff.IsBig

\* C6 witness: a big-endian BigTIFF whose chain runs against the file order,
\* from the second IFD of the file to the first, was decoded in chain order.
C6_Witness ==
    /\ Returned
    /\ lay.magic = "MM" /\ lay.marker = 43 /\ lay.cut = 0
    /\ LayChain(lay) = <<2, 1>>
    /\ lay.ifds[1].next = 0
    /\ Len(lay.ifds[1].tags) = 2
    /\ ret.err.isNil
    /\ Len(ret.tiff.Dirs) = 2
    /\ Len(ret.tiff.Dirs[2].Tags) = 1

\* The minimal TIFF was decoded.
MinimalTiffDecoded == Returned /\ data = MinimalTiff /\ Len(ret.tiff.Dirs) = 1

\* Every IFD of the input is well-formed.
InputWellFormed == \A j \in 1..Len(lay.ifds) : LayWellFormed(lay, j)

\* C2 as stated, over well-formed inputs: the offsets at which IFDs were
\* decoded are pairwise distinct, and between iterations t.Dirs has one Dir
\* per such offset.
C2_NoRepeatedOffset ==
    InputWellFormed =>
    /\ \A i, j \in 1..Len(decoded) : i # j => decoded[i].at # decoded[j].at
    /\ pc = "loop" => Len(dirs) = Cardinality({decoded[i].at : i \in 1..Len(decoded)})

\* C3 as stated, over well-formed inputs: the number of iterations of the IFD
\* loop never exceeds the number of bytes of the input.
C3_StepsBounded == InputWellFormed => steps <= Len(data)

\* C7 as stated: a DecodeDir that returns a Dir has called DecodeTag exactly
\* as many times as the tag count it read.
C7_TagCallsEqualCount ==
    (pc = "dir_ret" /\ dret.err.isNil) => tagCalls = nTags

\* The part of C7 about unhandled types, which the decoder keeps: a DecodeDir
\* over well-formed records returns a Dir with the recognized tags in on-disk
\* order, however many unhandled ones lie between them, and no failure of
\* Decode or DecodeDir is the unhandled-type sentinel.
UnhandledLeniency ==
    /\ dret.err # errUnhandledTagType
    /\ ret.err # errUnhandledTagType
    /\ \A i \in 1..Len(decoded) :
         \A j \in 1..Len(lay.ifds) :
            (decoded[i].at = LayIfdPos(lay, j) /\ LayWellFormed(lay, j))
                => decoded[i].d.Tags = LayTags(lay, lay.ifds[j].tags)

\* An IFD with an unhandled tag in front of a recognized one gave one Tag.
UnhandledSkipped ==
    /\ Returned
    /\ ret.err.isNil
    /\ Len(decoded) >= 1
    /\ decoded[1].at = LayIfdPos(lay, 1)
    /\ Len(lay.ifds[1].tags) = 2
    /\ Len(ret.tiff.Dirs[1].Tags) = 1

Verdict(b) == IF b THEN "true" ELSE "false"

\* C9: the predicate answers every row of the test table as the table
\* expects, accepts every value that begins with "Nikon\0", and rejects every
\* value shorter than six bytes, six zero bytes and "Canon\0", whatever the
\* other fields of the tag are.
C9_NikonPredicate ==
    mkRes # "none" =>
        /\ \A i \in 1..Len(tiffMakerNoteValueTests) :
              mkTag.Val = tiffMakerNoteValueTests[i].makerNoteValue
                 => mkRes = Verdict(tiffMakerNoteValueTests[i].expectedOutput)
        /\ (Len(mkTag.Val) >= 6 /\ \A i \in 1..6 : mkTag.Val[i] = NikonSig[i]) => mkRes = "true"
        /\ Len(mkTag.Val) < 6 => mkRes = "false"
        /\ mkTag.Val \in {<<0, 0, 0, 0, 0, 0>>, <<67, 97, 110, 111, 110, 0>>} => mkRes = "false"

\* C9 witness: "Nikon\0" followed by "42" was accepted.
C9_Witness ==
    /\ mkRes = "true"
    /\ mkTag.Val = <<78, 105, 107, 111, 110, 0, 52, 50>>

====
